---- MODULE Spec2Model ----
(***************************************************************************)
(* kinda-virtual-fs (src/src/lib.rs): Entry, a byte buffer that can be     *)
(* mapped to a file of the temp directory and is unmapped when dropped,    *)
(* and Storage, a HashMap of Entry values by string key.                   *)
(*                                                                         *)
(* The state is the set of Entry and Storage values the calling program    *)
(* owns, the files of the temp directory, the wall clock, and a record of  *)
(* the last call with what it returned and which filesystem calls it made. *)
(***************************************************************************)
EXTENDS Integers, Sequences, FiniteSets, TLC

\* ---------------------------------------------------------------- bounds
\* Number of microseconds the clock advances during a run.
MaxTick == 1
\* Entry values alive at once (owned by the caller or inside a Storage).
MaxLive == 2
\* Filesystem calls that fail during a run.
MaxFaults == 2

\* The byte buffers the caller builds Entry values from: the empty one, and
\* two of the same length ("H" and "W").
ByteSeqs == {<<>>, <<72>>, <<87>>}
\* The clock's readings when the run starts: before the epoch, and late enough
\* for the next tick to add a digit to the hexadecimal timestamp ("f", "10").
StartTimes == {-1, 15}
Clock == UNION {t..(t + MaxTick) : t \in StartTimes}
\* The caller's variables that can own an Entry, and those that own a Storage.
Handles == {1, 2}
StorageIds == {1, 2}
\* The variable that owns the Storage of a program with one Storage, and the
\* variable that receives what its calls return.
OneStorage == {1}
Slots == {1}
\* The keys the caller uses.
Keys == {"example 1", "example 2"}

VARIABLES
    now,       \* the system clock: microseconds since UNIX_EPOCH
    held,      \* handle -> the Entry that caller variable owns
    storages,  \* storage id -> the Storage that caller variable owns
    fs,        \* path -> content, for every file that exists
    last,      \* the last call: what it was given, returned and did
    faults     \* how many filesystem calls have failed so far

vars == <<now, held, storages, fs, last, faults>>

\* ------------------------------------------------------------ finite maps
EmptyMap == [x \in {} |-> {}]

Put(f, k, v) == [x \in DOMAIN f \cup {k} |-> IF x = k THEN v ELSE f[x]]

Del(f, k) == [x \in DOMAIN f \ {k} |-> f[x]]

\* ------------------------------------------------------------------ Entry
\* format!("{:x}", n)
HexDigit(d) == SubSeq("0123456789abcdef", d + 1, d + 1)

RECURSIVE Hex(_)
Hex(n) == IF n < 16 THEN HexDigit(n) ELSE Hex(n \div 16) \o HexDigit(n % 16)

\* SystemTime::now().duration_since(UNIX_EPOCH).unwrap_or(Duration::from_secs(0))
\* .as_micros(): a clock before the epoch reads as 0.
as_micros(clock) == IF clock < 0 THEN 0 ELSE clock

\* Entry::new(bytes) called when the clock reads `clock`.
new(bytes, clock) ==
    [bytes |-> bytes,
     random_id |-> Hex(as_micros(clock)) \o "-" \o Hex(Len(bytes)) \o ".kvfs"]

\* std::env::temp_dir()
temp_dir == "/tmp"

get_temp_path(e) == temp_dir \o "/" \o e.random_id

\* Path::new(&path).exists()
exists(f, path) == path \in DOMAIN f

\* std::fs::write(&path, bytes) is File::create followed by write_all.  `w` is
\* what the filesystem does: w < 0, the file cannot be created; w < Len(bytes),
\* the file is created and the write fails after w bytes; w = Len(bytes), all is
\* written.
fs_write(f, path, bytes, w) ==
    IF w < 0
      THEN [ok |-> FALSE, fs |-> f]
      ELSE [ok |-> w = Len(bytes), fs |-> Put(f, path, SubSeq(bytes, 1, w))]

\* std::fs::remove_file(path); `rm` is whether the filesystem allows it.
fs_remove(f, path, rm) ==
    IF rm THEN [ok |-> TRUE, fs |-> Del(f, path)] ELSE [ok |-> FALSE, fs |-> f]

IoCall(call, path, ok) == <<call, path, IF ok THEN "ok" ELSE "err">>

\* map without the exists() test: the file is written on every call.
map_always_write(e, f, w) ==
    LET path == get_temp_path(e)
        r == fs_write(f, path, e.bytes, w)
    IN [res |-> IF r.ok THEN "Ok" ELSE "Err:Io",
        path |-> IF r.ok THEN path ELSE "",
        fs |-> r.fs,
        io |-> {IoCall("write", path, r.ok)}]

\* Entry::map(&self): the result, the path returned (on Ok), the filesystem
\* afterwards and the filesystem calls made.
map(e, f, w) ==
    LET path == get_temp_path(e) IN
    IF ~exists(f, path)
      THEN LET r == fs_write(f, path, e.bytes, w) IN
           [res |-> IF r.ok THEN "Ok" ELSE "Err:Io",
            path |-> IF r.ok THEN path ELSE "",
            fs |-> r.fs,
            io |-> {IoCall("write", path, r.ok)}]
      ELSE [res |-> "Ok", path |-> path, fs |-> f, io |-> {}]

\* unmap that reports success and leaves the file where it is.
unmap_keep(e, f, rm) == [res |-> "Ok", fs |-> f, io |-> {}]

\* unmap without the exists() test: remove_file is called on every call, and
\* fails when there is no file.
unmap_unchecked(e, f, rm) ==
    LET path == get_temp_path(e)
        r == fs_remove(f, path, rm /\ exists(f, path))
    IN [res |-> IF r.ok THEN "Ok" ELSE "Err:Io",
        fs |-> r.fs,
        io |-> {IoCall("remove", path, r.ok)}]

\* Entry::unmap(&self)
unmap(e, f, rm) ==
    LET path == get_temp_path(e) IN
    IF exists(f, path)
      THEN LET r == fs_remove(f, path, rm) IN
           [res |-> IF r.ok THEN "Ok" ELSE "Err:Io",
            fs |-> r.fs,
            io |-> {IoCall("remove", path, r.ok)}]
      ELSE [res |-> "Ok", fs |-> f, io |-> {}]

\* An Entry without its Drop implementation: nothing is unmapped.
drop_forget(e, f, rm) == [res |-> "unit", fs |-> f, io |-> {}]

\* drop that unwraps the result of unmap: a failed removal panics.
drop_unwrap(e, f, rm) ==
    LET r == unmap(e, f, rm) IN
    [res |-> IF r.res = "Ok" THEN "unit" ELSE "panic", fs |-> r.fs, io |-> r.io]

\* <Entry as Drop>::drop(&mut self): unmap, its result unused.
drop(e, f, rm) ==
    LET r == unmap(e, f, rm) IN [res |-> "unit", fs |-> r.fs, io |-> r.io]

\* Dropping several Entry values one after the other (a HashMap's values, in
\* the order `es`), the i-th removal allowed iff rms[i].
RECURSIVE drop_all(_, _, _)
drop_all(es, f, rms) ==
    IF es = <<>>
      THEN [res |-> "unit", fs |-> f, io |-> {}]
      ELSE LET r == drop(Head(es), f, Head(rms))
               rest == drop_all(Tail(es), r.fs, Tail(rms))
           IN [res |-> "unit", fs |-> rest.fs, io |-> r.io \cup rest.io]

\* Option<Entry>: None is {}, Some(e) is {e}.
None == {}
Some(e) == {e}

\* -------------------------------------------------------------- bookkeeping
StorageSize(s) == Cardinality(DOMAIN storages[s].entries)

RECURSIVE SumSizes(_)
SumSizes(S) ==
    IF S = {} THEN 0
    ELSE LET s == CHOOSE x \in S : TRUE IN StorageSize(s) + SumSizes(S \ {s})

Live == Cardinality(DOMAIN held) + SumSizes(DOMAIN storages)

\* The record of a call: the operation, the handle or storage id and the key
\* it was called on, the Entry passed in, the result, the path returned or of
\* the Entry acted on, the Entry returned, the filesystem calls made and the
\* Entry values dropped during the call.
Call(op, tgt, key, arg, res, path, ret, io, dropped) ==
    [op |-> op, tgt |-> tgt, key |-> key, arg |-> arg, res |-> res,
     path |-> path, ret |-> ret, io |-> io, dropped |-> dropped]

\* The failed filesystem calls among `io` are counted, up to MaxFaults.
Faulted(io) == Cardinality({c \in io : c[3] = "err"})

Budget(io) ==
    /\ faults + Faulted(io) <= MaxFaults
    /\ faults' = faults + Faulted(io)

\* What the filesystem may do to a write of `bytes`, and to a removal.
WriteOutcomes(bytes) == -1..Len(bytes)
AllWriteOutcomes == UNION {WriteOutcomes(b) : b \in ByteSeqs}
RemoveOutcomes == BOOLEAN

\* ---------------------------------------------------------- Entry actions
\* let h = Entry::new(b);
EntryNew(h, b) ==
    /\ h \notin DOMAIN held
    /\ Live < MaxLive
    /\ held' = Put(held, h, new(b, now))
    /\ last' = Call("new", h, "", None, "unit", "", Some(new(b, now)), {}, {})
    /\ UNCHANGED <<now, storages, fs, faults>>

\* let h2 = h.clone();   (#[derive(Clone)])
EntryClone(h, h2) ==
    /\ h \in DOMAIN held
    /\ h2 \notin DOMAIN held
    /\ Live < MaxLive
    /\ held' = Put(held, h2, held[h])
    /\ last' = Call("clone", h, "", None, "unit", "", Some(held[h]), {}, {})
    /\ UNCHANGED <<now, storages, fs, faults>>

\* h.map()
EntryMap(h, w) ==
    /\ h \in DOMAIN held
    /\ w \in WriteOutcomes(held[h].bytes)
    /\ LET r == map(held[h], fs, w) IN
         /\ fs' = r.fs
         /\ last' = Call("map", h, "", None, r.res, r.path, None, r.io, {})
         /\ Budget(r.io)
    /\ UNCHANGED <<now, held, storages>>

\* h.unmap()
EntryUnmap(h, rm) ==
    /\ h \in DOMAIN held
    /\ LET r == unmap(held[h], fs, rm) IN
         /\ fs' = r.fs
         /\ last' = Call("unmap", h, "", None, r.res, get_temp_path(held[h]),
                         None, r.io, {})
         /\ Budget(r.io)
    /\ UNCHANGED <<now, held, storages>>

\* drop(h), or h going out of scope
EntryDrop(h, rm) ==
    /\ h \in DOMAIN held
    /\ LET r == drop(held[h], fs, rm) IN
         /\ fs' = r.fs
         /\ last' = Call("drop", h, "", None, r.res, get_temp_path(held[h]),
                         None, r.io, {held[h]})
         /\ Budget(r.io)
    /\ held' = Del(held, h)
    /\ UNCHANGED <<now, storages>>

\* --------------------------------------------------------------- Storage
\* insert that keeps the value a key already has (entry(key).or_insert(e)).
insert_keep_old(entries, key, e) ==
    IF key \in DOMAIN entries
      THEN [entries |-> entries, ret |-> None]
      ELSE [entries |-> Put(entries, key, e), ret |-> None]

\* HashMap::insert: the map afterwards and the value replaced.
insert(entries, key, e) ==
    [entries |-> Put(entries, key, e),
     ret |-> IF key \in DOMAIN entries THEN Some(entries[key]) ELSE None]

\* HashMap::remove
remove_key(entries, key) ==
    [entries |-> Del(entries, key),
     ret |-> IF key \in DOMAIN entries THEN Some(entries[key]) ELSE None]

\* Storage::add(&mut self, key, entry), `e` being entry.into()
add(st, key, e) ==
    LET r == insert(st.entries, key, e) IN
    [st |-> [entries |-> r.entries], ret |-> r.ret]

\* Storage::get(&self, key)
get(st, key) ==
    IF key \in DOMAIN st.entries THEN Some(st.entries[key]) ELSE None

\* Storage::remove(&mut self, key)
remove(st, key) ==
    LET r == remove_key(st.entries, key) IN
    [st |-> [entries |-> r.entries], ret |-> r.ret]

\* Storage::map(&self, key)
storage_map(st, key, f, w) ==
    IF get(st, key) # None
      THEN map(st.entries[key], f, w)
      ELSE [res |-> "Err:NoEntry", path |-> "", fs |-> f, io |-> {}]

\* unmap that treats an unknown key as map does.
storage_unmap_strict(st, key, f, rm) ==
    IF key \in DOMAIN st.entries
      THEN unmap(st.entries[key], f, rm)
      ELSE [res |-> "Err:NoEntry", fs |-> f, io |-> {}]

\* Storage::unmap(&self, key)
storage_unmap(st, key, f, rm) ==
    IF get(st, key) # None
      THEN unmap(st.entries[key], f, rm)
      ELSE [res |-> "Ok", fs |-> f, io |-> {}]

\* The one element of a set of at most one element, as a sequence.
AsSeq(opt) == IF opt = {} THEN <<>> ELSE <<CHOOSE e \in opt : TRUE>>

OptPath(opt) == IF opt = {} THEN "" ELSE get_temp_path(CHOOSE e \in opt : TRUE)

\* The caller's handling of an Option<Entry> a call returned: kh = 0, the value
\* is not bound to a variable and is dropped at the end of the statement; kh a
\* handle, `let kh = ...` keeps it.
Receive(opt, kh, f, rm) ==
    IF opt = None \/ kh = 0
      THEN LET r == drop_all(AsSeq(opt), f, <<rm>>) IN
           [held |-> held, fs |-> r.fs, io |-> r.io, dropped |-> opt]
      ELSE [held |-> Put(held, kh, CHOOSE e \in opt : TRUE), fs |-> f,
            io |-> {}, dropped |-> {}]

\* -------------------------------------------------------- Storage actions
\* let s = Storage::default();
StorageDefault(s) ==
    /\ s \notin DOMAIN storages
    /\ storages' = Put(storages, s, [entries |-> EmptyMap])
    /\ last' = Call("s_default", s, "", None, "unit", "", None, {}, {})
    /\ UNCHANGED <<now, held, fs, faults>>

\* let s = Storage::new(entries); the HashMap was filled by moving the Entry of
\* handle m[k] under key k.
StorageNew(s, m) ==
    /\ s \notin DOMAIN storages
    /\ DOMAIN m # {}
    /\ \A k \in DOMAIN m : m[k] \in DOMAIN held
    /\ \A k1, k2 \in DOMAIN m : m[k1] = m[k2] => k1 = k2
    /\ storages' = Put(storages, s, [entries |-> [k \in DOMAIN m |-> held[m[k]]]])
    /\ held' = [h \in DOMAIN held \ {m[k] : k \in DOMAIN m} |-> held[h]]
    /\ last' = Call("s_new", s, "", None, "unit", "", None, {}, {})
    /\ UNCHANGED <<now, fs, faults>>

\* s.add(key, e), the previous Entry of the key received by kh.
StorageAddWith(s, key, e, hs, kh, rm) ==
    LET a == add(storages[s], key, e)
        c == Receive(a.ret, kh, fs, rm)
    IN /\ kh # 0 => kh \notin DOMAIN held /\ a.ret # None
       /\ storages' = Put(storages, s, a.st)
       /\ held' = [h \in DOMAIN c.held \ hs |-> c.held[h]]
       /\ fs' = c.fs
       /\ last' = Call("s_add", s, key, Some(e), IF a.ret = None THEN "None" ELSE "Some",
                       OptPath(a.ret), a.ret, c.io, c.dropped)
       /\ Budget(c.io)
       /\ UNCHANGED now

\* s.add(key, b): the bytes are wrapped by Entry::new (From<T> for Entry).
StorageAddBytes(s, key, b, kh, rm) ==
    /\ s \in DOMAIN storages
    /\ Live < MaxLive
    /\ StorageAddWith(s, key, new(b, now), {}, kh, rm)

\* s.add(key, h): the Entry of handle h is moved into the storage.
StorageAddEntry(s, key, h, kh, rm) ==
    /\ s \in DOMAIN storages
    /\ h \in DOMAIN held
    /\ StorageAddWith(s, key, held[h], {h}, kh, rm)

\* s.get(key)
StorageGet(s, key) ==
    /\ s \in DOMAIN storages
    /\ LET r == get(storages[s], key) IN
         last' = Call("s_get", s, key, None, IF r = None THEN "None" ELSE "Some",
                      "", r, {}, {})
    /\ UNCHANGED <<now, held, storages, fs, faults>>

\* s.remove(key), the removed Entry received by kh.
StorageRemove(s, key, kh, rm) ==
    /\ s \in DOMAIN storages
    /\ LET a == remove(storages[s], key)
           c == Receive(a.ret, kh, fs, rm)
       IN /\ kh # 0 => kh \notin DOMAIN held /\ a.ret # None
          /\ storages' = Put(storages, s, a.st)
          /\ held' = c.held
          /\ fs' = c.fs
          /\ last' = Call("s_remove", s, key, None,
                          IF a.ret = None THEN "None" ELSE "Some",
                          OptPath(a.ret), a.ret, c.io, c.dropped)
          /\ Budget(c.io)
    /\ UNCHANGED now

\* s.map(key)
StorageMap(s, key, w) ==
    /\ s \in DOMAIN storages
    /\ key \in DOMAIN storages[s].entries => w \in WriteOutcomes(storages[s].entries[key].bytes)
    /\ key \notin DOMAIN storages[s].entries => w = 0
    /\ LET r == storage_map(storages[s], key, fs, w) IN
         /\ fs' = r.fs
         /\ last' = Call("s_map", s, key, None, r.res, r.path, None, r.io, {})
         /\ Budget(r.io)
    /\ UNCHANGED <<now, held, storages>>

\* s.unmap(key)
StorageUnmap(s, key, rm) ==
    /\ s \in DOMAIN storages
    /\ LET r == storage_unmap(storages[s], key, fs, rm) IN
         /\ fs' = r.fs
         /\ last' = Call("s_unmap", s, key, None, r.res, OptPath(get(storages[s], key)),
                         None, r.io, {})
         /\ Budget(r.io)
    /\ UNCHANGED <<now, held, storages>>

\* let s2 = s.clone();   (#[derive(Clone)]: every Entry is cloned)
StorageClone(s, s2) ==
    /\ s \in DOMAIN storages
    /\ s2 \notin DOMAIN storages
    /\ Live + StorageSize(s) <= MaxLive
    /\ storages' = Put(storages, s2, storages[s])
    /\ last' = Call("s_clone", s, "", None, "unit", "", None, {}, {})
    /\ UNCHANGED <<now, held, fs, faults>>

\* drop(s): the HashMap drops its values in the order `ks` of their keys.
StorageDrop(s, ks, rms) ==
    /\ s \in DOMAIN storages
    /\ Len(ks) = StorageSize(s)
    /\ {ks[i] : i \in 1..Len(ks)} = DOMAIN storages[s].entries
    /\ Len(rms) = Len(ks)
    /\ LET es == [i \in 1..Len(ks) |-> storages[s].entries[ks[i]]]
           r == drop_all(es, fs, rms)
       IN /\ fs' = r.fs
          /\ last' = Call("s_drop", s, "", None, r.res, "", None, r.io,
                          {es[i] : i \in 1..Len(ks)})
          /\ Budget(r.io)
    /\ storages' = Del(storages, s)
    /\ UNCHANGED <<now, held>>

KeyMaps == UNION {[K -> Slots] : K \in SUBSET Keys}

SeqsUpTo(S, n) == UNION {[1..i -> S] : i \in 0..n}

\* A microsecond passes.
Tick ==
    /\ now + 1 \in Clock
    /\ now' = now + 1
    /\ UNCHANGED <<held, storages, fs, last, faults>>

Init ==
    /\ now \in StartTimes
    /\ held = EmptyMap
    /\ storages = EmptyMap
    /\ fs = EmptyMap
    /\ faults = 0
    /\ last = Call("init", 0, "", None, "unit", "", None, {}, {})

\* Calls on the Entry values the caller owns in the variables H.
EntryCalls(H, RM) ==
    \/ \E h \in H, b \in ByteSeqs : EntryNew(h, b)
    \/ \E h \in H, h2 \in H : EntryClone(h, h2)
    \/ \E h \in H, w \in AllWriteOutcomes : EntryMap(h, w)
    \/ \E h \in H, rm \in RM : EntryUnmap(h, rm)
    \/ \E h \in H, rm \in RM : EntryDrop(h, rm)

\* Calls on the Storage values of the variables S, the caller moving Entry
\* values in and out of the variables H.
StorageCalls(S, H, RM) ==
    \/ \E s \in S : StorageDefault(s)
    \/ \E s \in S, m \in KeyMaps : StorageNew(s, m)
    \/ \E s \in S, k \in Keys, b \in ByteSeqs, kh \in H \cup {0}, rm \in RM :
          StorageAddBytes(s, k, b, kh, rm)
    \/ \E s \in S, k \in Keys, h \in H, kh \in H \cup {0}, rm \in RM :
          StorageAddEntry(s, k, h, kh, rm)
    \/ \E s \in S, k \in Keys : StorageGet(s, k)
    \/ \E s \in S, k \in Keys, kh \in H \cup {0}, rm \in RM :
          StorageRemove(s, k, kh, rm)
    \/ \E s \in S, k \in Keys, w \in AllWriteOutcomes : StorageMap(s, k, w)
    \/ \E s \in S, k \in Keys, rm \in RM : StorageUnmap(s, k, rm)
    \/ \E s \in S, ks \in SeqsUpTo(Keys, Cardinality(Keys)),
          rms \in SeqsUpTo(RM, Cardinality(Keys)) : StorageDrop(s, ks, rms)

\* A program that uses Entry values alone.
NextEntry == EntryCalls(Handles, RemoveOutcomes) \/ Tick

SpecEntry == Init /\ [][NextEntry]_vars

\* The same program on a filesystem where remove_file always succeeds.
NextDeleteOk == EntryCalls(Handles, {TRUE}) \/ Tick

SpecDeleteOk == Init /\ [][NextDeleteOk]_vars

\* A program that keeps its Entry values in one Storage and builds them all
\* at one reading of the clock: two Entry values of the same length share
\* their identifier, two of different lengths do not.
Next ==
    \/ \E h \in Slots, b \in ByteSeqs : EntryNew(h, b)
    \/ \E h \in Slots, rm \in RemoveOutcomes : EntryDrop(h, rm)
    \/ StorageCalls(OneStorage, Slots, RemoveOutcomes)

Spec == Init /\ [][Next]_vars

\* A program that fills Storage values from byte buffers, maps them, clones
\* them and drops them.
NextClone ==
    \/ \E s \in StorageIds : StorageDefault(s)
    \/ \E s \in StorageIds, k \in Keys, b \in ByteSeqs, rm \in RemoveOutcomes :
          StorageAddBytes(s, k, b, 0, rm)
    \/ \E s \in StorageIds, k \in Keys, w \in AllWriteOutcomes : StorageMap(s, k, w)
    \/ \E s \in StorageIds, s2 \in StorageIds : StorageClone(s, s2)
    \/ \E s \in StorageIds, ks \in SeqsUpTo(Keys, Cardinality(Keys)),
          rms \in SeqsUpTo(RemoveOutcomes, Cardinality(Keys)) : StorageDrop(s, ks, rms)
    \/ Tick

SpecClone == Init /\ [][NextClone]_vars

\* ================================================================= claims
\* A step that is a call (every call leaves the clock alone and records
\* itself in `last`; a Tick leaves `last` alone).
IsCall(op) == now' = now /\ last'.op = op

\* Two calls in succession on the same Entry or Storage key.
Successive(op1, op2) ==
    /\ last.op = op1
    /\ IsCall(op2)
    /\ last'.tgt = last.tgt
    /\ last'.key = last.key

\* Every Entry value that exists.
LiveEntries ==
    {held[h] : h \in DOMAIN held}
      \cup UNION {{storages[s].entries[k] : k \in DOMAIN storages[s].entries} :
                   s \in DOMAIN storages}

RemoveFailed(c) == IoCall("remove", c.path, FALSE) \in c.io
RemoveDone(c) == IoCall("remove", c.path, TRUE) \in c.io
WriteDone(c) == IoCall("write", c.path, TRUE) \in c.io

\* C1 (lifecycle cleanup): where remove_file never fails, every file of the
\* temp directory is at the temp path of an Entry that is alive, and right
\* after an Entry is dropped there is no file at its temp path.
C1_LifecycleCleanup ==
    /\ \A p \in DOMAIN fs : \E e \in LiveEntries : get_temp_path(e) = p
    /\ last.op = "drop" => last.path \notin DOMAIN fs

\* C1's case: an Entry whose file existed was dropped, and the file is gone.
C1_Witness ==
    /\ last.op = "drop"
    /\ RemoveDone(last)
    /\ last.path \notin DOMAIN fs

\* C2 (map content), as claimed, on the runs where no filesystem call has
\* failed: whenever map() returns Ok(path), the file at path exists and holds
\* exactly the Entry's bytes.
C2_MapContent ==
    (faults = 0 /\ last.op = "map" /\ last.res = "Ok")
      => /\ last.path \in DOMAIN fs
         /\ fs[last.path] = held[last.tgt].bytes

\* C3 (unmap removes the file): after unmap() returns Ok no file is at the
\* Entry's temp path; a map() that finds no file there and returns Ok has
\* created it with the Entry's bytes; and a map() that follows the unmap()
\* returns the path the unmap() removed.
C3_UnmapRemoves ==
    [][
        /\ IsCall("unmap") /\ last'.res = "Ok" => last'.path \notin DOMAIN fs'
        /\ \A h \in DOMAIN held :
             (/\ IsCall("map") /\ last'.tgt = h /\ last'.res = "Ok"
              /\ get_temp_path(held[h]) \notin DOMAIN fs)
               => /\ last'.path = get_temp_path(held[h])
                  /\ DOMAIN fs' = DOMAIN fs \cup {last'.path}
                  /\ fs'[last'.path] = held[h].bytes
        /\ (Successive("unmap", "map") /\ last.res = "Ok" /\ last'.res = "Ok")
             => /\ last'.path = last.path
                /\ WriteDone(last')
                /\ fs'[last.path] = held[last.tgt].bytes
    ]_vars

\* C3's case: an unmap() has removed the file a map() wrote.
C3_Witness ==
    /\ last.op = "unmap"
    /\ last.res = "Ok"
    /\ RemoveDone(last)
    /\ last.path \notin DOMAIN fs

\* C4 (idempotent unmap), as claimed: the second of two unmap() calls in
\* succession on the same Entry never returns an error.
C4_SecondUnmapNeverErrs ==
    [][
        Successive("unmap", "unmap") => last'.res = "Ok"
    ]_vars

\* C4, amended: the second of two unmap() calls in succession returns Ok when
\* the first returned Ok, and then calls nothing and changes nothing; unmap()
\* called while no file is at the Entry's temp path returns Ok, makes no
\* filesystem call and leaves the filesystem as it was.
C4_IdempotentUnmap ==
    [][
        /\ (Successive("unmap", "unmap") /\ last.res = "Ok")
             => /\ last'.res = "Ok"
                /\ last'.io = {}
                /\ fs' = fs
        /\ (IsCall("unmap") /\ last'.path \notin DOMAIN fs)
             => /\ last'.res = "Ok"
                /\ last'.io = {}
                /\ fs' = fs
    ]_vars

\* C4's case: an unmap() that found no file, called nothing and returned Ok.
C4_Witness ==
    /\ last.op = "unmap"
    /\ last.res = "Ok"
    /\ last.io = {}
    /\ last.path \notin DOMAIN fs

\* C5 (idempotent map): two map() calls in succession on the same Entry that
\* return Ok return the same path; when the first wrote the file, the second
\* returns Ok, writes nothing and leaves the filesystem as it was; and every
\* map()/unmap() of an Entry works on the one path of its identifier, which
\* no call changes while the Entry is alive.
C5_IdempotentMap ==
    [][
        /\ (Successive("map", "map") /\ last.res = "Ok" /\ last'.res = "Ok")
             => last'.path = last.path
        /\ (Successive("map", "map") /\ WriteDone(last))
             => /\ last'.res = "Ok"
                /\ last'.io = {}
                /\ fs' = fs
        /\ \A h \in DOMAIN held :
             /\ h \in DOMAIN held' => get_temp_path(held'[h]) = get_temp_path(held[h])
             /\ ((IsCall("map") \/ IsCall("unmap")) /\ last'.tgt = h)
                  => /\ \A c \in last'.io : c[2] = get_temp_path(held[h])
                     /\ last'.res = "Ok" => last'.path = get_temp_path(held[h])
                     /\ DOMAIN fs' \subseteq DOMAIN fs \cup {get_temp_path(held[h])}
                     /\ DOMAIN fs \subseteq DOMAIN fs' \cup {get_temp_path(held[h])}
    ]_vars

\* C5's case: a map() that found its file in place and wrote nothing.
C5_Witness ==
    /\ last.op = "map"
    /\ last.res = "Ok"
    /\ last.io = {}
    /\ last.path \in DOMAIN fs

\* C6 (removal and replacement trigger cleanup), as claimed: after remove(k),
\* or add(k, e2) over a key that held an Entry, the file the previous Entry
\* was mapped to no longer exists.
C6_RemovalUnmaps ==
    [][
        ((IsCall("s_remove") \/ IsCall("s_add"))
           /\ last'.ret # None /\ last'.path \in DOMAIN fs)
          => last'.path \notin DOMAIN fs'
    ]_vars

\* C6, amended: the file of the previous Entry is gone once the Entry the call
\* returned has been dropped and remove_file has not failed: at the end of the
\* call when the caller does not keep the value, at the later drop when it
\* does; as long as the caller keeps it, the call leaves the file in place.
C6_RemovalThenDropUnmaps ==
    [][
        /\ ((IsCall("s_remove") \/ IsCall("s_add"))
              /\ last'.ret # None /\ last'.path \in DOMAIN fs)
             => /\ (last'.dropped # {} /\ ~RemoveFailed(last'))
                     => (last'.dropped = last'.ret /\ last'.path \notin DOMAIN fs')
                /\ last'.dropped = {} => fs' = fs
        /\ (IsCall("drop") /\ ~RemoveFailed(last')) => last'.path \notin DOMAIN fs'
    ]_vars

\* C6's case: remove(k) whose result was not kept has removed the file.
C6_Witness ==
    /\ last.op = "s_remove"
    /\ last.dropped # {}
    /\ RemoveDone(last)
    /\ last.path \notin DOMAIN fs

\* C7 (storage replacement): add(k, e) returns the Entry k held before (None
\* when it held none) and leaves e under k, so that a second add on the same
\* key returns the Entry of the first and a get that follows an add returns
\* the Entry just added.
C7_StorageReplacement ==
    [][
        /\ IsCall("s_add")
             => /\ last'.ret = get(storages[last'.tgt], last'.key)
                /\ last'.res = (IF last'.key \in DOMAIN storages[last'.tgt].entries
                                  THEN "Some" ELSE "None")
                /\ get(storages'[last'.tgt], last'.key) = last'.arg
                /\ \A k \in Keys \ {last'.key} :
                     get(storages'[last'.tgt], k) = get(storages[last'.tgt], k)
        /\ Successive("s_add", "s_add") => last'.ret = last.arg
        /\ Successive("s_add", "s_get")
             => /\ last'.res = "Some"
                /\ last'.ret = last.arg
                /\ \A e \in last'.ret, a \in last.arg : e.bytes = a.bytes
    ]_vars

\* C7's case: an add has replaced an Entry by one with other bytes.
C7_Witness ==
    /\ last.op = "s_add"
    /\ last.res = "Some"
    /\ \E e1 \in last.ret, e2 \in last.arg : e1.bytes # e2.bytes

\* C8 (unknown key): on a key the Storage does not hold, map returns the
\* no-entry error and unmap returns Ok, neither touching the Storage, the
\* caller's values or the filesystem; on a key it holds, they return and do
\* what the Entry's own map()/unmap() return and do, and the keys stay.
C8_UnknownKey ==
    [][
        \A s \in DOMAIN storages, k \in Keys :
          LET st == storages[s]
              here == last'.tgt = s /\ last'.key = k
          IN /\ (IsCall("s_map") /\ here /\ k \notin DOMAIN st.entries)
                  => /\ last'.res = "Err:NoEntry"
                     /\ last'.io = {}
                     /\ UNCHANGED <<storages, held, fs>>
             /\ (IsCall("s_unmap") /\ here /\ k \notin DOMAIN st.entries)
                  => /\ last'.res = "Ok"
                     /\ last'.io = {}
                     /\ UNCHANGED <<storages, held, fs>>
             /\ (IsCall("s_map") /\ here /\ k \in DOMAIN st.entries)
                  => /\ \E w \in WriteOutcomes(st.entries[k].bytes) :
                          LET r == map(st.entries[k], fs, w) IN
                            /\ last'.res = r.res
                            /\ last'.path = r.path
                            /\ last'.io = r.io
                            /\ fs' = r.fs
                     /\ UNCHANGED <<storages, held>>
             /\ (IsCall("s_unmap") /\ here /\ k \in DOMAIN st.entries)
                  => /\ \E rm \in RemoveOutcomes :
                          LET r == unmap(st.entries[k], fs, rm) IN
                            /\ last'.res = r.res
                            /\ last'.io = r.io
                            /\ fs' = r.fs
                     /\ UNCHANGED <<storages, held>>
    ]_vars

\* C8's case: unmap of a key the Storage does not hold, while a file exists.
C8_Witness ==
    /\ last.op = "s_unmap"
    /\ last.tgt \in DOMAIN storages
    /\ last.key \notin DOMAIN storages[last.tgt].entries
    /\ last.res = "Ok"
    /\ fs # EmptyMap

StorageOp(op) ==
    op \in {"s_default", "s_new", "s_add", "s_get", "s_remove", "s_map",
            "s_unmap", "s_clone", "s_drop"}

\* C9 (exclusive release), as claimed: while an Entry that map() has mapped
\* is alive and has not been unmapped, no call on another Entry or Storage
\* value removes its file.
C9_ExclusiveRelease ==
    [][
        (/\ last.op \in {"map", "s_map"} /\ last.res = "Ok"
         /\ now' = now
         /\ StorageOp(last'.op) # StorageOp(last.op) \/ last'.tgt # last.tgt
         /\ IF last.op = "map"
              THEN last.tgt \in DOMAIN held'
              ELSE /\ last.tgt \in DOMAIN storages'
                   /\ last.key \in DOMAIN storages'[last.tgt].entries)
          => last.path \in DOMAIN fs'
    ]_vars

\* C10 (non-propagating cleanup): a drop whose remove_file fails still ends
\* with the Entry gone, nothing returned or raised, and the file as it was;
\* an unmap() whose remove_file fails returns the error, the Entry and the
\* file staying as they were.
C10_NonPropagatingCleanup ==
    [][
        /\ (IsCall("drop") /\ RemoveFailed(last'))
             => /\ last'.res = "unit"
                /\ last'.tgt \notin DOMAIN held'
                /\ fs' = fs
                /\ last'.path \in DOMAIN fs'
        /\ (IsCall("unmap") /\ RemoveFailed(last'))
             => /\ last'.res = "Err:Io"
                /\ held' = held
                /\ fs' = fs
                /\ last'.path \in DOMAIN fs'
    ]_vars

\* C10's case: a drop whose removal failed has left the file behind.
C10_Witness ==
    /\ last.op = "drop"
    /\ RemoveFailed(last)
    /\ last.path \in DOMAIN fs

====
